---------------------------- MODULE Spec2Model ----------------------------
(***************************************************************************)
(* A model of the voxel map builder of vlmaps/map/vlmap_builder.py         *)
(* (class VLMapBuilderROS): the occupancy index, the four slot arrays,     *)
(* the fusion loop, raycast clearing, capacity growth, save and load.      *)
(*                                                                         *)
(* Numbers.  Embeddings, colours and weights are exact rationals <<n, d>>  *)
(* with d > 0 in lowest terms.  Positions are integers in units of half a  *)
(* cell.  Covariances are integers in units of 0.001.  Python arrays are   *)
(* sequences: slot id s is element s + 1.                                  *)
(***************************************************************************)
EXTENDS Integers, Sequences, FiniteSets, TLC

----------------------------------------------------------------------------
(* Bounds of the model *)

\* the largest number of frames processed over all runs of the node
MaxFrames == 2

----------------------------------------------------------------------------
(* Exact rational arithmetic *)

RECURSIVE GCD(_, _)
GCD(a, b) == IF b = 0 THEN a ELSE GCD(b, a % b)

Abs(x) == IF x < 0 THEN -x ELSE x

Norm(n, d) ==
    LET g == GCD(Abs(n), Abs(d))
        s == IF d < 0 THEN -1 ELSE 1
    IN  <<(s * n) \div g, (s * d) \div g>>

RInt(n) == <<n, 1>>
RAdd(p, q) == Norm(p[1] * q[2] + q[1] * p[2], p[2] * q[2])
RMul(p, q) == Norm(p[1] * q[1], p[2] * q[2])
RDiv(p, q) == Norm(p[1] * q[2], p[2] * q[1])
RLess(p, q) == p[1] * q[2] < q[1] * p[2]
RFloor(p) == p[1] \div p[2]

RECURSIVE Pow2(_)
Pow2(n) == IF n = 0 THEN 1 ELSE 2 * Pow2(n - 1)

\* vectors of rationals (an embedding, a colour)
VRat(v) == [i \in DOMAIN v |-> RInt(v[i])]
VZero(n) == [i \in 1..n |-> RInt(0)]
VScale(v, a) == [i \in DOMAIN v |-> RMul(v[i], a)]
VAdd(u, v) == [i \in DOMAIN u |-> RAdd(u[i], v[i])]
VDivS(v, a) == [i \in DOMAIN v |-> RDiv(v[i], a)]

----------------------------------------------------------------------------
(* Configuration (map_config) *)

\* self.gs = map_config.grid_size
gs == 2
\* self.cs = map_config.cell_size, in position units
cs == 2
\* vh = int(maximum_height / cs)
vh == 2
\* self.clip_feat_dim = lseg_model.out_c
clip_feat_dim == 2
\* map_config.amcl_cov_threshold, in units of 0.001
cfg_amcl_cov_threshold == 100
\* self.amcl_cov_threshold: a negative configured value is replaced by 0.01
amcl_cov_threshold ==
    IF cfg_amcl_cov_threshold < 0 THEN 10 ELSE cfg_amcl_cov_threshold

\* the cells of occupied_ids, an array of shape (gs, gs, vh)
Coords == (0..(gs - 1)) \X (0..(gs - 1)) \X (0..(vh - 1))

\* np.full([36], 0.2)
InitCov == [i \in 1..36 |-> 200]

----------------------------------------------------------------------------
(* Inputs *)

\* what project_depth_features_pc_torch returns per point: the position in
\* the sensor frame, the embedding and the colour
oA == [point |-> <<0, 0, 0>>, feature |-> <<1, 0>>, rgb |-> <<10, 20, 30>>]
oB == [point |-> <<1, 0, 0>>, feature |-> <<0, 1>>, rgb |-> <<31, 20, 255>>]
oC == [point |-> <<0, 0, 2>>, feature |-> <<1, 1>>, rgb |-> <<255, 255, 255>>]
oD == [point |-> <<-1, 0, 2>>, feature |-> <<2, 0>>, rgb |-> <<0, 0, 0>>]
oE == [point |-> <<0, -1, 0>>, feature |-> <<0, 2>>, rgb |-> <<7, 8, 9>>]
oF == [point |-> <<2, 0, 0>>, feature |-> <<3, 1>>, rgb |-> <<100, 50, 1>>]

\* the point clouds of a frame
Clouds ==
    { <<oA>>, <<oA, oB>>, <<oF, oC>>, <<oF>>, <<oA, oC, oD, oE>> }

\* translations of the camera in the map frame (the rotation is the identity)
Poses == { <<0, 0, 0>>, <<-2, 0, 0>> }

\* the voxels a raycasting strategy may return, in order
ClearLists ==
    { <<>>,
      << <<2, 0, 0>>, <<1, 1, 1>>, <<1, 1, 0>> >>,
      << <<0, -1, 0>>, <<0, 1, 0>>, <<1, 0, 0>>, <<0, 1, 0>> >> }

\* the covariances an /amcl_pose message may carry
CovMsgs ==
    { [i \in 1..36 |-> 1],
      [i \in 1..36 |-> IF i = 1 THEN 300 ELSE 1],
      [i \in 1..36 |-> IF i = 2 THEN -500 ELSE 1] }

----------------------------------------------------------------------------
(* NumPy arrays as sequences *)

\* an index NumPy accepts: -len <= i < len; any other one raises IndexError
ValidIdx(arr, i) == -Len(arr) <= i /\ i < Len(arr)
PyIdx(arr, i) == IF i < 0 THEN Len(arr) + i + 1 ELSE i + 1
Get(arr, i) == arr[PyIdx(arr, i)]
Put(arr, i, v) == [arr EXCEPT ![PyIdx(arr, i)] = v]
\* arr[:n]
Slice(arr, n) ==
    LET k == IF n < 0 THEN Len(arr) + n ELSE n
        e == IF k < 0 THEN 0 ELSE IF k > Len(arr) THEN Len(arr) ELSE k
    IN  SubSeq(arr, 1, e)
Zeros(n, v) == [i \in 1..n |-> v]

\* the values held by an array
Values(q) == {q[i] : i \in DOMAIN q}
SeqMax(q) == CHOOSE x \in Values(q) : \A y \in Values(q) : x >= y
SeqMin(q) == CHOOSE x \in Values(q) : \A y \in Values(q) : x =< y

\* a store into an array of the given dtype: uint8 truncates, float32 keeps
Cast(dtype, v) ==
    IF dtype = "uint8" THEN [i \in DOMAIN v |-> RInt(RFloor(v[i]) % 256)]
    ELSE v

----------------------------------------------------------------------------
(* Spatial index *)

\* floor(position / cell size) per axis, the horizontal axes offset by half
\* the grid
base_pos2grid_id_3d(point) ==
    << (point[1] \div cs) + (gs \div 2),
       (point[2] \div cs) + (gs \div 2),
       point[3] \div cs >>

_out_of_range(row, col, height) ==
    col >= gs \/ row >= gs \/ height >= vh \/ col < 0 \/ row < 0 \/ height < 0

\* pcd_feat.transform(transform_np), the rotation being the identity
transform(pose, point) ==
    << point[1] + pose[1], point[2] + pose[2], point[3] + pose[3] >>

\* radial_dist_sq = np.sum(np.square(point))
radial_dist_sq(point) ==
    point[1] * point[1] + point[2] * point[2] + point[3] * point[3]

\* alpha = np.exp(-radial_dist_sq / (2 * sigma_sq)): a positive weight, 1 at
\* distance 0 and falling by a constant factor per unit of squared distance
\* (the factor is 1/2 here, so that the arithmetic stays rational)
alpha_of(r) == <<1, Pow2(r)>>

----------------------------------------------------------------------------
(* Feature store *)

\* _init_map before the check for a saved map
EmptyMap ==
    [ occupied_ids |-> [c \in Coords |-> -1],
      grid_feat |-> Zeros(gs * gs, VZero(clip_feat_dim)),
      grid_pos |-> Zeros(gs * gs, <<0, 0, 0>>),
      weight |-> Zeros(gs * gs, RInt(0)),
      grid_rgb |-> Zeros(gs * gs, VZero(3)),
      rgb_dtype |-> "uint8",
      max_id |-> 0,
      raised |-> FALSE ]

\* a growth by a single row
_reserve_map_space_by_one(m) ==
    [ m EXCEPT
        !.grid_feat = Append(m.grid_feat, VZero(clip_feat_dim)),
        !.grid_pos = Append(m.grid_pos, <<0, 0, 0>>),
        !.weight = Append(m.weight, RInt(0)),
        !.grid_rgb = Append(m.grid_rgb, VZero(3)),
        !.rgb_dtype = "float32" ]

\* a growth that puts the new rows before the old ones
_reserve_map_space_prepend(m) ==
    [ m EXCEPT
        !.grid_feat = Zeros(Len(m.grid_feat), VZero(clip_feat_dim)) \o m.grid_feat,
        !.grid_pos = Zeros(Len(m.grid_pos), <<0, 0, 0>>) \o m.grid_pos,
        !.weight = Zeros(Len(m.weight), RInt(0)) \o m.weight,
        !.grid_rgb = Zeros(Len(m.grid_rgb), VZero(3)) \o m.grid_rgb,
        !.rgb_dtype = "float32" ]

_reserve_map_space(m) ==
    [ m EXCEPT
        !.grid_feat = m.grid_feat \o Zeros(Len(m.grid_feat), VZero(clip_feat_dim)),
        !.grid_pos = m.grid_pos \o Zeros(Len(m.grid_pos), <<0, 0, 0>>),
        !.weight = m.weight \o Zeros(Len(m.weight), RInt(0)),
        !.grid_rgb = m.grid_rgb \o Zeros(Len(m.grid_rgb), VZero(3)),
        !.rgb_dtype = "float32" ]

\* an allocation that does not bind the coordinate to the slot
allocate_unbound(m, vox, feat, rgb, alpha) ==
    IF ~ValidIdx(m.grid_feat, m.max_id) THEN [m EXCEPT !.raised = TRUE]
    ELSE [ m EXCEPT
             !.grid_feat = Put(m.grid_feat, m.max_id, VScale(VRat(feat), alpha)),
             !.grid_rgb = Put(m.grid_rgb, m.max_id, Cast(m.rgb_dtype, VRat(rgb))),
             !.weight = Put(m.weight, m.max_id, RAdd(Get(m.weight, m.max_id), alpha)),
             !.grid_pos = Put(m.grid_pos, m.max_id, vox),
             !.max_id = m.max_id + 1 ]

\* the branch occupied_id == -1 of the fusion loop
allocate(m, vox, feat, rgb, alpha) ==
    LET m1 == [m EXCEPT !.occupied_ids[vox] = m.max_id] IN
    IF ~ValidIdx(m1.grid_feat, m1.max_id) THEN [m1 EXCEPT !.raised = TRUE]
    ELSE [ m1 EXCEPT
             !.grid_feat = Put(m1.grid_feat, m1.max_id, VScale(VRat(feat), alpha)),
             !.grid_rgb = Put(m1.grid_rgb, m1.max_id, Cast(m1.rgb_dtype, VRat(rgb))),
             !.weight = Put(m1.weight, m1.max_id, RAdd(Get(m1.weight, m1.max_id), alpha)),
             !.grid_pos = Put(m1.grid_pos, m1.max_id, vox),
             !.max_id = m1.max_id + 1 ]

\* an update that also takes a new slot id
update_advancing(m, occupied_id, feat, rgb, alpha) ==
    IF ~ValidIdx(m.grid_feat, occupied_id) THEN [m EXCEPT !.raised = TRUE]
    ELSE
    LET w == Get(m.weight, occupied_id)
        E == Get(m.grid_feat, occupied_id)
        C == Get(m.grid_rgb, occupied_id)
    IN  [ m EXCEPT
            !.grid_feat = Put(m.grid_feat, occupied_id,
                VDivS(VAdd(VScale(E, w), VScale(VRat(feat), alpha)), RAdd(w, alpha))),
            !.grid_rgb = Put(m.grid_rgb, occupied_id,
                Cast(m.rgb_dtype,
                     VDivS(VAdd(VScale(C, w), VScale(VRat(rgb), alpha)), RAdd(w, alpha)))),
            !.weight = Put(m.weight, occupied_id, RAdd(w, alpha)),
            !.max_id = m.max_id + 1 ]

\* the else branch of the fusion loop
update(m, occupied_id, feat, rgb, alpha) ==
    IF ~ValidIdx(m.grid_feat, occupied_id) THEN [m EXCEPT !.raised = TRUE]
    ELSE
    LET w == Get(m.weight, occupied_id)
        E == Get(m.grid_feat, occupied_id)
        C == Get(m.grid_rgb, occupied_id)
    IN  [ m EXCEPT
            !.grid_feat = Put(m.grid_feat, occupied_id,
                VDivS(VAdd(VScale(E, w), VScale(VRat(feat), alpha)), RAdd(w, alpha))),
            !.grid_rgb = Put(m.grid_rgb, occupied_id,
                Cast(m.rgb_dtype,
                     VDivS(VAdd(VScale(C, w), VScale(VRat(rgb), alpha)), RAdd(w, alpha)))),
            !.weight = Put(m.weight, occupied_id, RAdd(w, alpha)) ]

\* one iteration of the fusion loop; o.point is in the map frame
fuse_point(m, o) ==
    LET vox == base_pos2grid_id_3d(o.point) IN
    IF _out_of_range(vox[1], vox[2], vox[3]) THEN m
    ELSE
    LET m1 == IF m.max_id >= Len(m.grid_feat) THEN _reserve_map_space(m) ELSE m
        alpha == alpha_of(radial_dist_sq(o.point))
        occupied_id == m1.occupied_ids[vox]
    IN  IF occupied_id = -1 THEN allocate(m1, vox, o.feature, o.rgb, alpha)
        ELSE update(m1, occupied_id, o.feature, o.rgb, alpha)

\* a fusion loop that leaves at the first point out of range
RECURSIVE fuse_cloud_break(_, _)
fuse_cloud_break(m, cloud) ==
    LET vox == base_pos2grid_id_3d(Head(cloud).point) IN
    IF m.raised \/ cloud = <<>> THEN m
    ELSE IF _out_of_range(vox[1], vox[2], vox[3]) THEN m
    ELSE fuse_cloud_break(fuse_point(m, Head(cloud)), Tail(cloud))

\* the fusion loop over the points of the frame, in order; an exception
\* leaves the loop
RECURSIVE fuse_cloud(_, _)
fuse_cloud(m, cloud) ==
    IF m.raised \/ cloud = <<>> THEN m
    ELSE fuse_cloud(fuse_point(m, Head(cloud)), Tail(cloud))

\* a frame that skips the saturation
saturate_skipped(m) == m

\* self.grid_rgb[self.grid_rgb > 255] = 255
saturate(m) ==
    [ m EXCEPT !.grid_rgb =
        [ s \in DOMAIN m.grid_rgb |->
            [ i \in DOMAIN m.grid_rgb[s] |->
                IF RLess(RInt(255), m.grid_rgb[s][i]) THEN RInt(255)
                ELSE m.grid_rgb[s][i] ] ] ]

----------------------------------------------------------------------------
(* Clearing *)

\* a loop body that takes every entry other than 0 for a slot id
remove_voxel_nonzero(m, voxel) ==
    IF _out_of_range(voxel[1], voxel[2], voxel[3]) THEN m
    ELSE IF m.occupied_ids[voxel] # 0 THEN
        LET id == m.occupied_ids[voxel] IN
        IF ~ValidIdx(m.grid_feat, id) THEN [m EXCEPT !.raised = TRUE]
        ELSE [ m EXCEPT
                 !.grid_feat = Put(m.grid_feat, id, VZero(clip_feat_dim)),
                 !.grid_pos = Put(m.grid_pos, id, <<0, 0, 0>>),
                 !.grid_rgb = Put(m.grid_rgb, id, VZero(3)),
                 !.occupied_ids[voxel] = -1 ]
    ELSE m

\* the body of the loop of remove_map_voxels
remove_voxel(m, voxel) ==
    IF _out_of_range(voxel[1], voxel[2], voxel[3]) THEN m
    ELSE IF m.occupied_ids[voxel] > 0 THEN
        LET id == m.occupied_ids[voxel] IN
        IF ~ValidIdx(m.grid_feat, id) THEN [m EXCEPT !.raised = TRUE]
        ELSE [ m EXCEPT
                 !.grid_feat = Put(m.grid_feat, id, VZero(clip_feat_dim)),
                 !.grid_pos = Put(m.grid_pos, id, <<0, 0, 0>>),
                 !.grid_rgb = Put(m.grid_rgb, id, VZero(3)),
                 !.occupied_ids[voxel] = -1 ]
    ELSE m

RECURSIVE remove_map_voxels(_, _)
remove_map_voxels(m, voxels_to_clear) ==
    IF m.raised \/ voxels_to_clear = <<>> THEN m
    ELSE remove_map_voxels(remove_voxel(m, Head(voxels_to_clear)),
                           Tail(voxels_to_clear))

----------------------------------------------------------------------------
(* The node *)

VARIABLES
    occupied_ids,   \* coordinate -> slot id, -1 when unoccupied
    grid_feat,      \* slot -> accumulated embedding
    grid_pos,       \* slot -> voxel coordinate
    weight,         \* slot -> accumulated weight
    grid_rgb,       \* slot -> accumulated colour
    rgb_dtype,      \* the dtype of grid_rgb: "uint8" or "float32"
    max_id,         \* the slot index the next allocation writes
    loaded_map,     \* the map was loaded from a saved map
    frame_i,        \* the frames processed in this run
    amcl_cov,       \* the last pose covariance received
    use_raycast,    \* map_config.use_raycasting
    disk,           \* the saved map file: <<>> or <<snapshot>>
    pub,            \* the last point cloud published on "vlmap"
    crashed,        \* a callback raised: the node is down
    nframes,        \* frames processed over all runs (bounds the model)
    run_processed,  \* history: the frames of this run processed to their end
    diff,           \* a call of compute_point_cloud_difference and its result
    ev              \* what the last step was

mapvars == <<occupied_ids, grid_feat, grid_pos, weight, grid_rgb, rgb_dtype, max_id>>
vars == <<occupied_ids, grid_feat, grid_pos, weight, grid_rgb, rgb_dtype, max_id,
          loaded_map, frame_i, amcl_cov, use_raycast, disk, pub, crashed,
          nframes, run_processed, diff, ev>>

\* the map held by the node, as the record the operators above work on
Map ==
    [ occupied_ids |-> occupied_ids, grid_feat |-> grid_feat,
      grid_pos |-> grid_pos, weight |-> weight, grid_rgb |-> grid_rgb,
      rgb_dtype |-> rgb_dtype, max_id |-> max_id, raised |-> FALSE ]

Node ==
    [ m |-> Map, frame_i |-> frame_i, loaded_map |-> loaded_map,
      amcl_cov |-> amcl_cov, use_raycast |-> use_raycast, disk |-> disk,
      pub |-> pub ]

\* a clearing phase that runs from the first frame on
raycast_enabled_always(s) == s.use_raycast

\* a callback that logs the failed lookup and goes on
lookup_transform_swallowed(tfOk) == FALSE

\* the try/except around tf_buffer.lookup_transform: the frame is left
lookup_transform_raises(tfOk) == ~tfOk

\* if not (abs(cov.max()) < threshold) and (abs(cov.min()) < threshold): return
cov_gate_aborts(cov) ==
    (~(Abs(SeqMax(cov)) < amcl_cov_threshold))
        /\ (Abs(SeqMin(cov)) < amcl_cov_threshold)

\* if ((self.frame_i != 0) or (self.loaded_map == True)) and self.use_raycast
raycast_enabled(s) == ((s.frame_i # 0) \/ s.loaded_map) /\ s.use_raycast

\* a save of the whole arrays
_save_3d_map_whole(m) ==
    [ grid_feat |-> m.grid_feat,
      grid_pos |-> m.grid_pos,
      weight |-> m.weight,
      grid_rgb |-> m.grid_rgb,
      rgb_dtype |-> m.rgb_dtype,
      occupied_ids |-> m.occupied_ids ]

\* the arrays cut to [:max_id], handed to save_3d_map with the index
_save_3d_map(m) ==
    [ grid_feat |-> Slice(m.grid_feat, m.max_id),
      grid_pos |-> Slice(m.grid_pos, m.max_id),
      weight |-> Slice(m.weight, m.max_id),
      grid_rgb |-> Slice(m.grid_rgb, m.max_id),
      rgb_dtype |-> m.rgb_dtype,
      occupied_ids |-> m.occupied_ids ]

\* mask = (self.grid_pos > 0).all(axis=1): the points and colours published
pointcloud(m) ==
    LET rows == [i \in 1..Len(m.grid_pos) |-> <<m.grid_pos[i], m.grid_rgb[i]>>]
        mask(r) == r[1][1] > 0 /\ r[1][2] > 0 /\ r[1][3] > 0
    IN  SelectSeq(rows, mask)

\* featured_pc.points_xyz in the map frame
to_map_frame(pose, cloud) ==
    [i \in DOMAIN cloud |-> [cloud[i] EXCEPT !.point = transform(pose, @)]]

\* raycasting: the voxels of the points of the frame, filtered by
\* (cam_voxels > 0) & (cam_voxels < [gs, gs, vh]) on all three axes, which
\* the raycasting strategy is handed
cam_voxels(camera_cloud) ==
    SelectSeq([i \in DOMAIN camera_cloud |-> base_pos2grid_id_3d(camera_cloud[i].point)],
              LAMBDA v : /\ v[1] > 0 /\ v[2] > 0 /\ v[3] > 0
                         /\ v[1] < gs /\ v[2] < gs /\ v[3] < vh)

\* sensors_callback on the node s: the pose lookup succeeded or not, the
\* pose, the points of the frame, and what the raycasting strategy returns
sensors_callback(s, tfOk, pose, cloud, clr) ==
    LET left(o) ==
            [ m |-> s.m, frame_i |-> s.frame_i, disk |-> s.disk, pub |-> s.pub,
              outcome |-> o, raycast |-> FALSE, observed |-> <<>>,
              saves |-> 0, pubs |-> 0 ]
    IN
    IF lookup_transform_raises(tfOk) THEN left("tf_fail")
    ELSE IF cov_gate_aborts(s.amcl_cov) THEN left("cov_abort")
    ELSE
    LET rc == raycast_enabled(s)
        ob == IF rc THEN cam_voxels(to_map_frame(pose, cloud)) ELSE <<>>
        m1 == IF rc THEN remove_map_voxels(s.m, clr) ELSE s.m
        m2 == fuse_cloud(m1, to_map_frame(pose, cloud))
        m3 == saturate(m2)
    IN  IF m2.raised THEN
            [ m |-> m2, frame_i |-> s.frame_i, disk |-> s.disk, pub |-> s.pub,
              outcome |-> "raised", raycast |-> rc, observed |-> ob,
              saves |-> 0, pubs |-> 0 ]
        ELSE
            [ m |-> m3, frame_i |-> s.frame_i + 1, disk |-> <<_save_3d_map(m3)>>,
              pub |-> pointcloud(m3),
              outcome |-> "processed", raycast |-> rc, observed |-> ob,
              saves |-> 1, pubs |-> 1 ]

\* _init_map: an empty map, or the saved one when the file exists
_init_map(d) ==
    IF d # <<>> THEN
        [ occupied_ids |-> d[1].occupied_ids, grid_feat |-> d[1].grid_feat,
          grid_pos |-> d[1].grid_pos, weight |-> d[1].weight,
          grid_rgb |-> d[1].grid_rgb, rgb_dtype |-> d[1].rgb_dtype,
          max_id |-> Len(d[1].grid_feat) - 1, raised |-> FALSE ]
    ELSE EmptyMap

NoEv ==
    [ kind |-> "init", tf_ok |-> TRUE, outcome |-> "none", pose |-> <<>>,
      cloud |-> <<>>, clr |-> <<>>, raycast |-> FALSE, observed |-> <<>>,
      saves |-> 0, pubs |-> 0, grew |-> FALSE ]

\* no call of compute_point_cloud_difference
NoDiff ==
    [ pcd_1 |-> <<>>, pcd_2 |-> <<>>, distance_threshold |-> 0,
      diff_pcd |-> <<>>, returned |-> FALSE ]

SetMap(m) ==
    /\ occupied_ids' = m.occupied_ids
    /\ grid_feat' = m.grid_feat
    /\ grid_pos' = m.grid_pos
    /\ weight' = m.weight
    /\ grid_rgb' = m.grid_rgb
    /\ rgb_dtype' = m.rgb_dtype
    /\ max_id' = m.max_id

Init ==
    /\ occupied_ids = EmptyMap.occupied_ids
    /\ grid_feat = EmptyMap.grid_feat
    /\ grid_pos = EmptyMap.grid_pos
    /\ weight = EmptyMap.weight
    /\ grid_rgb = EmptyMap.grid_rgb
    /\ rgb_dtype = EmptyMap.rgb_dtype
    /\ max_id = EmptyMap.max_id
    /\ loaded_map = FALSE
    /\ frame_i = 0
    /\ amcl_cov = InitCov
    /\ use_raycast \in BOOLEAN
    /\ disk = <<>>
    /\ pub = <<>>
    /\ crashed = FALSE
    /\ nframes = 0
    /\ run_processed = 0
    /\ diff = NoDiff
    /\ ev = NoEv

\* a synchronised image and depth pair arrives; raycasting is called, and
\* returns a list, only in a frame that clears
SensorsCallback ==
    /\ ~crashed
    /\ nframes < MaxFrames
    /\ \E tfOk \in BOOLEAN, pose \in Poses, cloud \in Clouds,
          clr \in (IF raycast_enabled(Node) THEN ClearLists ELSE {<<>>}) :
      \E r \in {sensors_callback(Node, tfOk, pose, cloud, clr)} :
        LET ran == r.outcome \in {"processed", "raised"}
        IN  /\ SetMap(r.m)
            /\ frame_i' = r.frame_i
            /\ disk' = r.disk
            /\ pub' = r.pub
            /\ crashed' = (r.outcome = "raised")
            /\ nframes' = IF ran THEN nframes + 1 ELSE nframes
            /\ run_processed' = IF r.outcome = "processed" THEN run_processed + 1
                                ELSE run_processed
            /\ ev' = [ kind |-> "frame", tf_ok |-> tfOk, outcome |-> r.outcome,
                       pose |-> IF ran THEN pose ELSE <<>>,
                       cloud |-> IF ran THEN cloud ELSE <<>>,
                       clr |-> IF r.raycast THEN clr ELSE <<>>,
                       raycast |-> r.raycast, observed |-> r.observed,
                       saves |-> r.saves, pubs |-> r.pubs,
                       grew |-> Len(r.m.grid_feat) # Len(grid_feat) ]
            /\ UNCHANGED <<loaded_map, amcl_cov, use_raycast, diff>>

\* amcl_callback: a pose with covariance arrives
AmclCallback ==
    /\ ~crashed
    /\ nframes < MaxFrames
    /\ \E msg \in CovMsgs :
        /\ amcl_cov' = msg
        /\ ev' = [NoEv EXCEPT !.kind = "amcl"]
    /\ UNCHANGED <<mapvars, loaded_map, frame_i, use_raycast, disk, pub, crashed,
                   nframes, run_processed, diff>>

\* the node is started again: __init__ runs on what the last run saved
Restart ==
    /\ SetMap(_init_map(disk))
    /\ loaded_map' = (disk # <<>>)
    /\ frame_i' = 0
    /\ amcl_cov' = InitCov
    /\ pub' = <<>>
    /\ crashed' = FALSE
    /\ run_processed' = 0
    /\ ev' = [NoEv EXCEPT !.kind = "restart"]
    /\ UNCHANGED <<use_raycast, disk, nframes, diff>>

Next == SensorsCallback \/ AmclCallback \/ Restart

Spec == Init /\ [][Next]_vars

----------------------------------------------------------------------------
(* vlmaps/utils/visualize_utils.py: compute_point_cloud_difference *)

\* the point clouds handed to the function; coordinates and the threshold
\* are whole numbers of one length unit
DiffClouds ==
    { << <<0, 0, 0>> >>,
      << <<0, 0, 0>>, <<3, 0, 0>> >>,
      << <<1, 0, 0>>, <<0, 4, 0>>, <<0, 0, 0>> >>,
      << <<5, 5, 5>>, <<1, 1, 0>> >>,
      << <<2, 0, 0>>, <<2, 0, 0>>, <<0, 0, 1>> >> }
DiffThresholds == { 1, 2, 4 }

\* the square of np.linalg.norm(q - p)
norm_sq(q, p) ==
    (q[1] - p[1]) * (q[1] - p[1]) + (q[2] - p[2]) * (q[2] - p[2])
        + (q[3] - p[3]) * (q[3] - p[3])

\* pcd_2_tree.search_knn_vector_3d(point, 1): the index of a nearest point
search_knn_vector_3d(points_2, point) ==
    CHOOSE i \in DOMAIN points_2 :
        \A j \in DOMAIN points_2 :
            norm_sq(points_2[i], point) =< norm_sq(points_2[j], point)

\* np.linalg.norm(points_2[idx[0]] - point) < distance_threshold
within_threshold(points_2, point, distance_threshold) ==
    /\ distance_threshold > 0
    /\ norm_sq(points_2[search_knn_vector_3d(points_2, point)], point)
           < distance_threshold * distance_threshold

\* the points of the cloud returned, in the order of pcd_1
compute_point_cloud_difference(pcd_1, pcd_2, distance_threshold) ==
    SelectSeq(pcd_1, LAMBDA point : within_threshold(pcd_2, point, distance_threshold))

\* (the node is left as constructed)
InitDiff ==
    /\ occupied_ids = EmptyMap.occupied_ids
    /\ grid_feat = EmptyMap.grid_feat
    /\ grid_pos = EmptyMap.grid_pos
    /\ weight = EmptyMap.weight
    /\ grid_rgb = EmptyMap.grid_rgb
    /\ rgb_dtype = EmptyMap.rgb_dtype
    /\ max_id = EmptyMap.max_id
    /\ loaded_map = FALSE
    /\ frame_i = 0
    /\ amcl_cov = InitCov
    /\ use_raycast = FALSE
    /\ disk = <<>>
    /\ pub = <<>>
    /\ crashed = FALSE
    /\ nframes = 0
    /\ run_processed = 0
    /\ ev = NoEv
    /\ \E a \in DiffClouds, b \in DiffClouds, t \in DiffThresholds :
          diff = [ pcd_1 |-> a, pcd_2 |-> b, distance_threshold |-> t,
                   diff_pcd |-> <<>>, returned |-> FALSE ]

ComputeDiff ==
    /\ ~diff.returned
    /\ diff' = [ diff EXCEPT
                   !.diff_pcd = compute_point_cloud_difference(
                                    diff.pcd_1, diff.pcd_2, diff.distance_threshold),
                   !.returned = TRUE ]
    /\ UNCHANGED <<mapvars, loaded_map, frame_i, amcl_cov, use_raycast, disk, pub,
                   crashed, nframes, run_processed, ev>>

NextDiff == ComputeDiff

SpecDiff == InitDiff /\ [][NextDiff]_vars

----------------------------------------------------------------------------
(* Helpers of the properties *)

\* the step processed a frame to its end
Processed == ev'.kind = "frame" /\ ev'.outcome = "processed"

\* the points of the frame of this step, in the map frame
FramePoints == to_map_frame(ev'.pose, ev'.cloud)

\* the points of the frame recorded in e, in the map frame
FramePointsOf(e) == to_map_frame(e.pose, e.cloud)

\* the map after the clearing phase of the frame of this step
AfterClearing ==
    IF ev'.raycast THEN remove_map_voxels(Map, ev'.clr) ELSE Map

\* the map of the next state
MapNext ==
    [ occupied_ids |-> occupied_ids', grid_feat |-> grid_feat',
      grid_pos |-> grid_pos', weight |-> weight', grid_rgb |-> grid_rgb',
      rgb_dtype |-> rgb_dtype', max_id |-> max_id', raised |-> FALSE ]

InBounds(v) == ~_out_of_range(v[1], v[2], v[3])
VoxelOf(o) == base_pos2grid_id_3d(o.point)
SlotIsZero(m, id) ==
    /\ Get(m.grid_feat, id) = VZero(clip_feat_dim)
    /\ Get(m.grid_rgb, id) = VZero(3)
    /\ Get(m.grid_pos, id) = <<0, 0, 0>>

----------------------------------------------------------------------------
(* C6 *)

\* C6: when the pose lookup of a frame fails, the callback returns with the
\* occupancy index, the four slot arrays (so the capacity too), max_id and
\* the frame counter unchanged, and it neither saves nor publishes; the same
\* holds when the covariance test of the code rejects the frame.
C6_AbortLeavesMapUnchanged ==
    [][ (ev'.kind = "frame"
            /\ (~ev'.tf_ok \/ cov_gate_aborts(amcl_cov)))
        => /\ UNCHANGED <<mapvars, frame_i, disk, pub>>
           /\ ev'.saves = 0 /\ ev'.pubs = 0
           /\ ev'.outcome \in {"tf_fail", "cov_abort"}
           /\ (~ev'.tf_ok => ev'.outcome = "tf_fail") ]_vars

\* a pose lookup failed on a map that holds voxels, in a run where the frame
\* would have cleared and fused
C6_Witness ==
    /\ ev.kind = "frame" /\ ~ev.tf_ok /\ ev.outcome = "tf_fail"
    /\ max_id > 0 /\ frame_i > 0 /\ use_raycast
    /\ ~cov_gate_aborts(amcl_cov)

----------------------------------------------------------------------------
(* C1 *)

\* C1: in every reachable state every non-sentinel entry occupied_ids[C] = s
\* satisfies grid_pos[s] = C, and no two distinct coordinates hold the same
\* slot id.
C1_IndexConsistent ==
    /\ \A c \in Coords :
        occupied_ids[c] # -1 =>
            /\ ValidIdx(grid_pos, occupied_ids[c])
            /\ Get(grid_pos, occupied_ids[c]) = c
    /\ \A c1, c2 \in Coords :
        (c1 # c2 /\ occupied_ids[c1] # -1) => occupied_ids[c1] # occupied_ids[c2]

----------------------------------------------------------------------------
(* C2, C7 *)

\* the coordinates of the clear-set that are in bounds and occupied when
\* remove_map_voxels is called in the frame of this step
ClearedCoords ==
    { c \in Coords :
        /\ \E i \in DOMAIN ev'.clr : ev'.clr[i] = c
        /\ occupied_ids[c] # -1 }

\* C2: after remove_map_voxels(S) returns, every coordinate of S that is in
\* bounds and was occupied (whatever its slot id, 0 included) is unbound:
\* its index entry is -1 and the embedding, colour and coordinate of its
\* slot are zero.
C2_ClearUnbindsEveryOccupied ==
    [][ (Processed /\ ev'.raycast) =>
          \A c \in ClearedCoords :
              /\ AfterClearing.occupied_ids[c] = -1
              /\ SlotIsZero(AfterClearing, occupied_ids[c]) ]_vars

\* C7: clearing an occupied voxel resets every field of its slot: where
\* remove_map_voxels has unbound a coordinate, the slot's embedding is all
\* zero, its colour is all zero, its coordinate is (0,0,0) and its
\* accumulated weight is 0.
C7_ClearResetsEveryField ==
    [][ (Processed /\ ev'.raycast) =>
          \A c \in ClearedCoords :
              AfterClearing.occupied_ids[c] = -1 =>
                  /\ SlotIsZero(AfterClearing, occupied_ids[c])
                  /\ Get(AfterClearing.weight, occupied_ids[c]) = RInt(0) ]_vars

----------------------------------------------------------------------------
(* C5 *)

\* the largest absolute value of a covariance
MaxAbs(cov) == SeqMax([i \in DOMAIN cov |-> Abs(cov[i])])

\* C5: a frame that arrives while the largest absolute value of the stored
\* covariance is not below amcl_cov_threshold (the initial all-0.2
\* covariance with a threshold below 0.2 included) is aborted with the map
\* unchanged, and nothing is saved or published.
C5_GateOnMaxAbsCovariance ==
    [][ (ev'.kind = "frame" /\ ~(MaxAbs(amcl_cov) < amcl_cov_threshold))
        => /\ ev'.outcome \in {"tf_fail", "cov_abort"}
           /\ UNCHANGED <<mapvars, frame_i, disk, pub>> ]_vars

----------------------------------------------------------------------------
(* C8 *)

\* C8: when the node starts from a saved map of N slots, max_id is N after
\* the initialisation.
C8_LoadRestoresNextFreeSlot ==
    (ev.kind = "restart" /\ loaded_map) => max_id = Len(disk[1].grid_feat)

----------------------------------------------------------------------------
(* C3, C4 *)

AlphaOfPoint(o) == alpha_of(radial_dist_sq(o.point))
PointsIn(points, c) == SelectSeq(points, LAMBDA o : VoxelOf(o) = c)

RECURSIVE SumAlpha(_)
SumAlpha(points) ==
    IF points = <<>> THEN RInt(0)
    ELSE RAdd(AlphaOfPoint(Head(points)), SumAlpha(Tail(points)))

\* sum of alpha_i * v_i, the v_i being the embeddings or the colours
RECURSIVE SumAlphaFeature(_)
SumAlphaFeature(points) ==
    IF points = <<>> THEN VZero(clip_feat_dim)
    ELSE VAdd(VScale(VRat(Head(points).feature), AlphaOfPoint(Head(points))),
              SumAlphaFeature(Tail(points)))
RECURSIVE SumAlphaRgb(_)
SumAlphaRgb(points) ==
    IF points = <<>> THEN VZero(3)
    ELSE VAdd(VScale(VRat(Head(points).rgb), AlphaOfPoint(Head(points))),
              SumAlphaRgb(Tail(points)))

\* the coordinates unoccupied before the frame of this step into which the
\* frame fuses points
FreshCoords ==
    { c \in Coords : occupied_ids[c] = -1 /\ PointsIn(FramePoints, c) # <<>> }

\* C3: points with weights a1..an and values v1..vn fused one after another
\* into the same initially unoccupied voxel leave a stored embedding and a
\* stored colour equal to sum(ai*vi)/sum(ai).
C3_WeightedMean ==
    [][ Processed =>
          \A c \in FreshCoords :
              LET pts == PointsIn(FramePoints, c)
                  id == occupied_ids'[c]
              IN  /\ Get(grid_feat', id) = VDivS(SumAlphaFeature(pts), SumAlpha(pts))
                  /\ Get(grid_rgb', id) = VDivS(SumAlphaRgb(pts), SumAlpha(pts)) ]_vars

Perms(n) == { f \in [1..n -> 1..n] : \A i, j \in 1..n : f[i] = f[j] => i = j }
Permuted(q, f) == [i \in 1..Len(q) |-> q[f[i]]]

\* C4: fusing the same points into an initially unoccupied voxel yields the
\* same stored embedding, colour and weight for every order of the points.
C4_OrderInvariant ==
    [][ Processed =>
          \A f \in Perms(Len(FramePoints)) :
              LET mp == saturate(fuse_cloud(AfterClearing, Permuted(FramePoints, f)))
              IN  \A c \in FreshCoords :
                    /\ Get(mp.grid_feat, mp.occupied_ids[c])
                           = Get(grid_feat', occupied_ids'[c])
                    /\ Get(mp.grid_rgb, mp.occupied_ids[c])
                           = Get(grid_rgb', occupied_ids'[c])
                    /\ Get(mp.weight, mp.occupied_ids[c])
                           = Get(weight', occupied_ids'[c]) ]_vars

----------------------------------------------------------------------------
(* C9 *)

\* the step ran the clearing and fusion of a frame
Ran == ev'.kind = "frame" /\ ev'.outcome \in {"processed", "raised"}

\* the inputs of the frame without what is out of range
InRangePoints(pose, cloud) ==
    SelectSeq(cloud, LAMBDA o : InBounds(base_pos2grid_id_3d(transform(pose, o.point))))
InRangeVoxels(clr) == SelectSeq(clr, InBounds)

\* C9: a point whose voxel is out of range allocates no slot and changes no
\* index entry and no slot, and an out-of-range coordinate of a clear-set
\* changes nothing; the other points and coordinates of the frame have the
\* effect they have without them: the frame ends in the state, the saved map
\* and the published cloud it ends in when the out-of-range points and
\* coordinates are taken out of its inputs.
C9_OutOfRangeSkipped ==
    [][ Ran =>
          \A pts \in {FramePoints}, mc \in {AfterClearing} :
          /\ \A k \in 1..Len(pts) :
                ~InBounds(VoxelOf(pts[k])) =>
                    \A mk \in {fuse_cloud(mc, SubSeq(pts, 1, k - 1))} :
                        fuse_point(mk, pts[k]) = mk
          /\ \A k \in 1..Len(ev'.clr) :
                ~InBounds(ev'.clr[k]) =>
                    \A mk \in {remove_map_voxels(Map, SubSeq(ev'.clr, 1, k - 1))} :
                        remove_voxel(mk, ev'.clr[k]) = mk
          /\ \A r \in {sensors_callback(Node, TRUE, ev'.pose,
                          InRangePoints(ev'.pose, ev'.cloud), InRangeVoxels(ev'.clr))} :
                 /\ r.outcome = ev'.outcome
                 /\ [r.m EXCEPT !.raised = FALSE] = MapNext
                 /\ r.frame_i = frame_i'
                 /\ r.disk = disk'
                 /\ r.pub = pub' ]_vars

\* a processed frame whose cloud holds an out-of-range point before a point
\* in range, and whose clear-set holds an out-of-range coordinate before an
\* occupied one that it unbinds
C9_Witness ==
    /\ ev.kind = "frame" /\ ev.outcome = "processed" /\ ev.raycast
    /\ \E i, j \in DOMAIN ev.cloud :
          /\ i < j
          /\ ~InBounds(base_pos2grid_id_3d(transform(ev.pose, ev.cloud[i].point)))
          /\ InBounds(base_pos2grid_id_3d(transform(ev.pose, ev.cloud[j].point)))
          /\ occupied_ids[base_pos2grid_id_3d(transform(ev.pose, ev.cloud[j].point))] # -1
    /\ \E i, j \in DOMAIN ev.clr :
          /\ i < j
          /\ ~InBounds(ev.clr[i])
          /\ InBounds(ev.clr[j])
          /\ occupied_ids[ev.clr[j]] = -1
          /\ \E s \in 1..max_id : grid_pos[s] = <<0, 0, 0>> /\ weight[s] # RInt(0)

----------------------------------------------------------------------------
(* C10 *)

\* _reserve_map_space on m keeps max_id, the index, and every slot below the
\* old capacity
GrowthPreserves(m) ==
    \A g \in {_reserve_map_space(m)} :
    /\ g.max_id = m.max_id
    /\ g.occupied_ids = m.occupied_ids
    /\ Len(g.grid_feat) > Len(m.grid_feat)
    /\ SubSeq(g.grid_feat, 1, Len(m.grid_feat)) = m.grid_feat
    /\ SubSeq(g.grid_rgb, 1, Len(m.grid_rgb)) = m.grid_rgb
    /\ SubSeq(g.weight, 1, Len(m.weight)) = m.weight
    /\ SubSeq(g.grid_pos, 1, Len(m.grid_pos)) = m.grid_pos

\* C10: wherever the fusion loop of a frame calls _reserve_map_space, the
\* call leaves the embedding, colour, weight and coordinate of every slot
\* below the old capacity unchanged, and max_id and every entry of the
\* occupancy index unchanged.
C10_GrowthKeepsSlots ==
    [][ Ran =>
          \A pts \in {FramePoints}, mc \in {AfterClearing} :
              \A k \in 1..Len(pts) :
                  InBounds(VoxelOf(pts[k])) =>
                      \A mk \in {fuse_cloud(mc, SubSeq(pts, 1, k - 1))} :
                          (~mk.raised /\ mk.max_id >= Len(mk.grid_feat))
                              => GrowthPreserves(mk) ]_vars

\* a frame on a map started empty grew the arrays past their first capacity
\* with every earlier slot in use
C10_Witness ==
    /\ ev.kind = "frame" /\ ev.outcome = "processed" /\ ev.grew
    /\ ~loaded_map
    /\ Len(grid_feat) = 2 * gs * gs
    /\ max_id = gs * gs + 1
    /\ \A s \in 1..max_id : weight[s] # RInt(0)

----------------------------------------------------------------------------
(* C11 *)

\* the index entries that the step turns from a slot id into the sentinel
Unbound == { c \in Coords : occupied_ids[c] # -1 /\ occupied_ids'[c] = -1 }

\* C11: the clearing phase runs in a frame only if use_raycasting is set and
\* either the map was loaded from a saved map or an earlier frame of this run
\* was processed to its end; in a run started from an empty map the first
\* frame that is not aborted unbinds no voxel, whatever number of aborted
\* frames came before it, and an aborted frame clears nothing.
C11_RaycastFromSecondFrame ==
    [][ ev'.kind = "frame" =>
          /\ ev'.raycast =>
                /\ use_raycast
                /\ loaded_map \/ run_processed > 0
                /\ ev'.outcome \in {"processed", "raised"}
          /\ (~loaded_map /\ run_processed = 0) => Unbound = {}
          /\ ev'.outcome \in {"tf_fail", "cov_abort"} => Unbound = {} ]_vars

\* the second processed frame of a run started from an empty map, with
\* use_raycasting set, has cleared a voxel
C11_Witness ==
    /\ ev.kind = "frame" /\ ev.outcome = "processed" /\ ev.raycast
    /\ use_raycast /\ ~loaded_map /\ run_processed = 2
    /\ \E i \in DOMAIN ev.clr :
          /\ InBounds(ev.clr[i])
          /\ occupied_ids[ev.clr[i]] = -1
          /\ \E s \in 1..max_id : grid_pos[s] = <<0, 0, 0>> /\ weight[s] # RInt(0)

----------------------------------------------------------------------------
(* C12 *)

\* the points of the frame of this step, in the sensor frame, whose voxel in
\* the map is c
SensorPointsIn(c) ==
    SelectSeq(ev'.cloud,
              LAMBDA o : base_pos2grid_id_3d(transform(ev'.pose, o.point)) = c)

\* the weight held at slot index id before the frame (0 past the capacity)
WeightBefore(id) == IF ValidIdx(weight, id) THEN Get(weight, id) ELSE RInt(0)

----------------------------------------------------------------------------
(* C13 *)

\* the coordinate and colour of the slots whose coordinate is not all-zero
NonZeroSlots ==
    SelectSeq([i \in 1..Len(grid_pos) |-> <<grid_pos[i], grid_rgb[i]>>],
              LAMBDA r : r[1] # <<0, 0, 0>>)

----------------------------------------------------------------------------
(* C14 *)

\* the map m as a call finds it
Unraised(m) == [m EXCEPT !.raised = FALSE]

\* C14: remove_map_voxels changes nothing at a coordinate whose index entry
\* is the sentinel -1, and applying it a second time with the same clear-set
\* leaves the state that the first application left (also when the call
\* leaves by an exception).
C14_ClearIdempotent ==
    [][ (Ran /\ ev'.raycast) =>
          /\ \A k \in 1..Len(ev'.clr) :
                InBounds(ev'.clr[k]) =>
                    \A mk \in {remove_map_voxels(Map, SubSeq(ev'.clr, 1, k - 1))} :
                        mk.occupied_ids[ev'.clr[k]] = -1
                            => remove_voxel(mk, ev'.clr[k]) = mk
          /\ \A m1 \in {Unraised(AfterClearing)} :
                Unraised(remove_map_voxels(m1, ev'.clr)) = m1 ]_vars

\* a frame has cleared with a clear-set that names a coordinate twice and
\* has unbound a slot, on a map whose last slot is in use
C14_Witness ==
    /\ ev.kind = "frame" /\ ev.outcome = "processed" /\ ev.raycast
    /\ ~loaded_map /\ run_processed = 2
    /\ \E i, j \in DOMAIN ev.clr :
          i < j /\ ev.clr[i] = ev.clr[j] /\ InBounds(ev.clr[i])
    /\ \E c \in Coords :
          /\ \E i \in DOMAIN ev.clr : ev.clr[i] = c
          /\ \A o \in Values(FramePointsOf(ev)) : VoxelOf(o) # c
          /\ occupied_ids[c] = -1
    /\ \E s \in 1..max_id : grid_pos[s] = <<0, 0, 0>> /\ weight[s] # RInt(0)
    /\ weight[gs * gs] # RInt(0)

----------------------------------------------------------------------------
(* C15 *)

\* every colour channel of the array is at most 255
AtMost255(rgb) ==
    \A s \in DOMAIN rgb : \A i \in DOMAIN rgb[s] : ~RLess(RInt(255), rgb[s][i])

\* the map with every colour multiplied by k: fused colours that overshoot,
\* as a mean computed in floating point can
Overshot(m, k) ==
    [m EXCEPT !.grid_rgb = [s \in DOMAIN m.grid_rgb |-> VScale(m.grid_rgb[s], k)]]
Overshoots == { <<1, 1>>, <<257, 256>>, <<3, 1>> }

\* C15: at the end of every processed frame, every colour channel of every
\* slot of grid_rgb is at most 255: the colours stored are the fused ones
\* after the saturation, and the saturation brings fused colours that
\* overshoot 255, by whatever amount, back to at most 255.
C15_ColourAtMost255 ==
    [][ Processed =>
          \A m2 \in {fuse_cloud(AfterClearing, FramePoints)} :
              /\ grid_rgb' = saturate(m2).grid_rgb
              /\ AtMost255(grid_rgb')
              /\ \A k \in Overshoots :
                    AtMost255(saturate(Overshot(m2, k)).grid_rgb) ]_vars

\* a frame that cleared, grew the arrays and averaged colours has left a
\* channel at 255 and a channel that is not a whole number
C15_Witness ==
    /\ ev.kind = "frame" /\ ev.outcome = "processed"
    /\ ev.raycast /\ ev.grew /\ rgb_dtype = "float32"
    /\ \E s \in 1..max_id : \E i \in 1..3 : grid_rgb[s][i] = RInt(255)
    /\ \E s \in 1..max_id : \E i \in 1..3 : grid_rgb[s][i][2] # 1

----------------------------------------------------------------------------
(* C16 *)

\* the square of the distance from point to the nearest point of cloud
NearestSq(cloud, point) ==
    CHOOSE d \in {norm_sq(cloud[i], point) : i \in DOMAIN cloud} :
        \A j \in DOMAIN cloud : d =< norm_sq(cloud[j], point)

\* C16: compute_point_cloud_difference(pcd_1, pcd_2, t) returns exactly the
\* points of pcd_1 whose nearest point of pcd_2 is at distance at least t,
\* so that a point of pcd_1 that is also a point of pcd_2 is not returned.
C16_DifferenceIsFarPoints ==
    diff.returned =>
        diff.diff_pcd =
            SelectSeq(diff.pcd_1,
                      LAMBDA point :
                          NearestSq(diff.pcd_2, point)
                              >= diff.distance_threshold * diff.distance_threshold)

----------------------------------------------------------------------------
(* C17 *)

\* the fusion of the point o into the map m, its voxel being unoccupied,
\* allocates as stated
AllocatesAsStated(m, o) ==
    \A n \in {fuse_point(m, o)} :
        /\ ~n.raised
        /\ m.max_id >= 0 /\ ValidIdx(n.grid_feat, m.max_id)
        /\ n.occupied_ids[VoxelOf(o)] = m.max_id
        /\ Get(n.grid_pos, m.max_id) = VoxelOf(o)
        /\ Get(n.grid_rgb, m.max_id) = VRat(o.rgb)
        /\ Get(n.weight, m.max_id) = AlphaOfPoint(o)
        /\ Get(n.grid_feat, m.max_id) = VScale(VRat(o.feature), AlphaOfPoint(o))
        /\ n.max_id = m.max_id + 1

\* C17: fusing a point whose voxel is in bounds and unoccupied, on a map
\* started empty or loaded from a saved map, writes the slot max_id: it binds
\* the coordinate to it, stores the coordinate and the colour, sets the
\* weight of the slot to alpha and its embedding to embedding * alpha, and
\* adds 1 to max_id.
C17_AllocationWritesNextSlot ==
    [][ Ran =>
          \A pts \in {FramePoints}, mc \in {AfterClearing} :
              \A k \in 1..Len(pts) :
                  InBounds(VoxelOf(pts[k])) =>
                      \A mk \in {fuse_cloud(mc, SubSeq(pts, 1, k - 1))} :
                          (~mk.raised /\ mk.occupied_ids[VoxelOf(pts[k])] = -1)
                              => AllocatesAsStated(mk, pts[k]) ]_vars

----------------------------------------------------------------------------
(* C18 *)

\* C18: the observed voxels that a frame hands to the raycasting strategy
\* are exactly the voxels of its points that are in bounds, row and column
\* in [0, gs) and height in [0, vh): a voxel with a component equal to 0 is
\* kept, and every voxel out of bounds is dropped.
C18_ObservedAreInBounds ==
    (ev.kind = "frame" /\ ev.raycast) =>
        Values(ev.observed)
            = { v \in {VoxelOf(o) : o \in Values(FramePointsOf(ev))} : InBounds(v) }

----------------------------------------------------------------------------
(* C19 *)

\* the slot store is well formed
StoreWellFormed ==
    /\ 0 <= max_id /\ max_id <= Len(grid_feat)
    /\ Len(grid_pos) = Len(grid_feat)
    /\ Len(weight) = Len(grid_feat)
    /\ Len(grid_rgb) = Len(grid_feat)
    /\ \A c \in Coords :
          occupied_ids[c] # -1 => (0 <= occupied_ids[c] /\ occupied_ids[c] < max_id)

\* the allocations of the frame of this step write a slot below the capacity
AllocationsBelowCapacity ==
    \A pts \in {FramePoints}, mc \in {AfterClearing} :
        \A k \in 1..Len(pts) :
            InBounds(VoxelOf(pts[k])) =>
                \A mk \in {fuse_cloud(mc, SubSeq(pts, 1, k - 1))} :
                    (~mk.raised /\ mk.occupied_ids[VoxelOf(pts[k])] = -1) =>
                        \A g \in {IF mk.max_id >= Len(mk.grid_feat)
                                  THEN _reserve_map_space(mk) ELSE mk} :
                            0 <= g.max_id /\ g.max_id < Len(g.grid_feat)

\* C19: in every reachable state, a start from a saved map of zero slots
\* included, 0 <= max_id <= capacity, the four slot arrays have the same
\* length and every index entry other than -1 lies in [0, max_id); and
\* every allocation writes a slot index below the capacity it finds.
C19_StoreWellFormed ==
    /\ []StoreWellFormed
    /\ [][Ran => AllocationsBelowCapacity]_vars

----------------------------------------------------------------------------
(* C20 *)

\* the capacity of the slot store of m
Capacity(m) == Len(m.grid_feat)
SameLengths(m) ==
    /\ Len(m.grid_pos) = Capacity(m)
    /\ Len(m.weight) = Capacity(m)
    /\ Len(m.grid_rgb) = Capacity(m)

\* the fusion of each point of the frame of this step keeps the capacity or
\* doubles it, and doubles it only from a state with max_id >= capacity
PointsDoubleOnlyWhenFull ==
    \A pts \in {FramePoints}, mc \in {AfterClearing} :
        /\ Capacity(mc) = Len(grid_feat)
        /\ \A mf \in {fuse_cloud(mc, pts)} :
              Capacity(mf) = Len(grid_feat') /\ (~mf.raised => SameLengths(mf))
        /\ \A k \in 1..Len(pts) :
              \A mk \in {fuse_cloud(mc, SubSeq(pts, 1, k - 1))} :
                  ~mk.raised =>
                      \A nk \in {fuse_point(mk, pts[k])} :
                          \/ Capacity(nk) = Capacity(mk)
                          \/ /\ Capacity(nk) = 2 * Capacity(mk)
                             /\ mk.max_id >= Capacity(mk)
                             /\ InBounds(VoxelOf(pts[k]))

\* C20: during a run the capacity of the slot store never shrinks and
\* changes only by doubling, and a doubling happens only while a point is
\* processed in a state where max_id has reached the capacity; outside the
\* fusion loop of a frame the capacity does not change.
C20_CapacityOnlyDoubles ==
    [][ ev'.kind # "restart" =>
          /\ Len(grid_feat') >= Len(grid_feat)
          /\ Ran => PointsDoubleOnlyWhenFull
          /\ ~Ran => Len(grid_feat') = Len(grid_feat) ]_vars

\* a frame on a loaded map of one slot has doubled the capacity to 2 and
\* filled it
C20_Witness ==
    /\ ev.kind = "frame" /\ ev.outcome = "processed" /\ ev.grew
    /\ loaded_map /\ run_processed = 1
    /\ Len(grid_feat) = 2 /\ max_id = 2

----------------------------------------------------------------------------
(* C21 *)

\* the coordinates named by the clear-set of the frame of this step
ClearSet == { c \in Coords : \E i \in DOMAIN ev'.clr : ev'.clr[i] = c }

\* the slot ids bound to a coordinate of the clear-set before the call
BoundToClearSet == { occupied_ids[c] : c \in {x \in ClearSet : occupied_ids[x] # -1} }

\* the slot ids that the call unbinds
ClearedIds ==
    { occupied_ids[c] :
        c \in {x \in ClearSet : occupied_ids[x] # -1 /\ AfterClearing.occupied_ids[x] = -1} }

\* the allocations that the fusion loop of the frame of this step makes
\* after the clearing write no slot id that the clearing has unbound
NoClearedIdAllocated ==
    \A pts \in {FramePoints}, mc \in {AfterClearing}, ids \in {ClearedIds} :
        \A k \in 1..Len(pts) :
            InBounds(VoxelOf(pts[k])) =>
                \A mk \in {fuse_cloud(mc, SubSeq(pts, 1, k - 1))} :
                    (~mk.raised /\ mk.occupied_ids[VoxelOf(pts[k])] = -1)
                        => mk.max_id \notin ids

\* C21: remove_map_voxels(S) changes neither max_id nor the capacity, no
\* index entry of a coordinate outside S and no field of a slot that was not
\* bound to a coordinate of S before the call; and a slot id that it has
\* cleared is not written by a later allocation.
C21_ClearTouchesOnlyItsSlots ==
    [][ (Ran /\ ev'.raycast) =>
          \A mc \in {AfterClearing} :
              /\ mc.max_id = max_id
              /\ Len(mc.grid_feat) = Len(grid_feat) /\ Len(mc.grid_pos) = Len(grid_pos)
              /\ Len(mc.weight) = Len(weight) /\ Len(mc.grid_rgb) = Len(grid_rgb)
              /\ \A c \in Coords \ ClearSet : mc.occupied_ids[c] = occupied_ids[c]
              /\ \A s \in 1..Len(grid_feat) :
                    (s - 1) \notin BoundToClearSet =>
                        /\ mc.grid_feat[s] = grid_feat[s]
                        /\ mc.grid_pos[s] = grid_pos[s]
                        /\ mc.weight[s] = weight[s]
                        /\ mc.grid_rgb[s] = grid_rgb[s]
              /\ NoClearedIdAllocated ]_vars

----------------------------------------------------------------------------
(* C22 *)

\* the fusion of the point o into the map m, its voxel being bound to the
\* slot id, writes that slot only
UpdatesItsSlotOnly(m, o, id) ==
    \A n \in {fuse_point(m, o)} :
        /\ n.max_id = m.max_id
        /\ n.occupied_ids = m.occupied_ids
        /\ SubSeq(n.grid_pos, 1, Len(m.grid_pos)) = m.grid_pos
        /\ \A s \in 1..Len(m.grid_feat) :
              (n.raised \/ s # PyIdx(m.grid_feat, id)) =>
                  /\ n.grid_feat[s] = m.grid_feat[s]
                  /\ n.weight[s] = m.weight[s]
        /\ ~n.raised =>
              Get(n.weight, id)
                  = RAdd(IF ValidIdx(m.weight, id) THEN Get(m.weight, id) ELSE RInt(0),
                         AlphaOfPoint(o))

\* the maps that the fusion loop goes through: element k is the map that
\* point k finds, the last one the map after the loop
RECURSIVE FuseStates(_, _)
FuseStates(m, cloud) ==
    IF cloud = <<>> THEN <<m>>
    ELSE <<m>> \o FuseStates(IF m.raised THEN m ELSE fuse_point(m, Head(cloud)),
                             Tail(cloud))

\* C22: fusing a point whose voxel is in bounds and occupied changes the
\* embedding, colour and weight of the slot bound to that voxel and nothing
\* else: max_id, every entry of the occupancy index, every stored
\* coordinate and the embedding and weight of every other slot stay as they
\* were.
C22_UpdateWritesOneSlot ==
    [][ Ran =>
          \A pts \in {FramePoints} :
          \A st \in {FuseStates(AfterClearing, pts)} :
              \A k \in 1..Len(pts) :
                  \A mk \in {st[k]}, c \in {VoxelOf(pts[k])} :
                      (InBounds(c) /\ ~mk.raised /\ mk.occupied_ids[c] # -1)
                          => \A id \in {mk.occupied_ids[c]} :
                                 UpdatesItsSlotOnly(mk, pts[k], id) ]_vars

\* the second frame of a run has fused its points into occupied voxels of a
\* full map: the arrays have grown and no slot was allocated
C22_Witness ==
    /\ ev.kind = "frame" /\ ev.outcome = "processed" /\ ev.grew
    /\ ~loaded_map /\ run_processed = 2
    /\ max_id = gs * gs /\ Len(grid_feat) = 2 * gs * gs
    /\ \E o \in Values(FramePointsOf(ev)) :
          InBounds(VoxelOf(o)) /\ occupied_ids[VoxelOf(o)] # -1

----------------------------------------------------------------------------
(* C23 *)

\* the voxels in bounds into which the points fall
Touched(pts) == { c \in Coords : PointsIn(pts, c) # <<>> }

\* C23: in a run started from an empty map, the points of a frame that fall
\* into the same unoccupied voxel are folded one after another: one slot is
\* allocated per such voxel, whatever the number of its points, and the
\* weight of the slot after the frame is the sum of their alphas; the
\* points that fall into an occupied voxel add their alphas to the weight of
\* its slot, so that the weight of a live slot is the sum of the alphas
\* fused into it since its allocation.
C23_WeightIsSumOfAlphas ==
    [][ (Processed /\ ~loaded_map) =>
          \A pts \in {FramePoints}, mc \in {AfterClearing} :
          \A fresh \in {{c \in Touched(pts) : mc.occupied_ids[c] = -1}} :
              /\ max_id' = max_id + Cardinality(fresh)
              /\ \A c \in fresh :
                    /\ max_id <= occupied_ids'[c] /\ occupied_ids'[c] < max_id'
                    /\ Get(weight', occupied_ids'[c]) = SumAlpha(PointsIn(pts, c))
              /\ \A c \in Touched(pts) \ fresh :
                    /\ occupied_ids'[c] = mc.occupied_ids[c]
                    /\ Get(weight', occupied_ids'[c])
                          = RAdd(Get(weight, occupied_ids'[c]),
                                 SumAlpha(PointsIn(pts, c))) ]_vars

\* the first frame of a run started empty has folded two points into one
\* voxel: one slot, whose weight is the sum of the two alphas
C23_Witness ==
    /\ ev.kind = "frame" /\ ev.outcome = "processed"
    /\ ~loaded_map /\ run_processed = 1 /\ max_id = 1
    /\ Len(ev.cloud) = 2
    /\ \E c \in Coords :
          /\ \A o \in Values(FramePointsOf(ev)) : VoxelOf(o) = c
          /\ occupied_ids[c] = 0
          /\ weight[1] = SumAlpha(FramePointsOf(ev))
          /\ weight[1] # AlphaOfPoint(FramePointsOf(ev)[1])

----------------------------------------------------------------------------
(* C24 *)

\* C24: clearing is over before the fusion loop starts, so at the end of
\* every processed frame the voxel of every point of the frame that is in
\* bounds is occupied, whatever the clear-set of the frame: its index entry
\* is a slot id, and the coordinate stored in that slot is the voxel.
C24_ObservedVoxelsOccupied ==
    (ev.kind = "frame" /\ ev.outcome = "processed") =>
        \A c \in {VoxelOf(o) : o \in Values(FramePointsOf(ev))} :
            InBounds(c) =>
                /\ occupied_ids[c] # -1
                /\ ValidIdx(grid_pos, occupied_ids[c])
                /\ Get(grid_pos, occupied_ids[c]) = c

----------------------------------------------------------------------------
(* C25 *)

\* the slots [0, n) of an array
FirstSlots(arr, n) == SubSeq(arr, 1, IF n < 0 THEN 0 ELSE n)

\* C25: every processed frame ends with one save, made after the clearing
\* and the fusion of the frame: what is saved is the four slot arrays cut
\* to the slots [0, max_id) and the whole occupancy index, as they are at
\* the end of the frame, and the save leaves the arrays, the index, max_id
\* and the capacity of the node as the fusion left them; a frame that is
\* not processed saves nothing.
C25_OneSavePerProcessedFrame ==
    [][ ev'.kind = "frame" =>
          /\ Processed =>
                /\ ev'.saves = 1
                /\ \A m2 \in {fuse_cloud(AfterClearing, FramePoints)} :
                  \A m3 \in {saturate(m2)} :
                      /\ MapNext = m3
                      /\ Len(disk') = 1
                      /\ disk'[1].grid_feat = FirstSlots(m3.grid_feat, m3.max_id)
                      /\ disk'[1].grid_pos = FirstSlots(m3.grid_pos, m3.max_id)
                      /\ disk'[1].weight = FirstSlots(m3.weight, m3.max_id)
                      /\ disk'[1].grid_rgb = FirstSlots(m3.grid_rgb, m3.max_id)
                      /\ disk'[1].occupied_ids = m3.occupied_ids
          /\ ~Processed => (ev'.saves = 0 /\ disk' = disk) ]_vars

\* a frame that cleared a slot and grew the arrays has saved the slots in
\* use, fewer than the capacity, the cleared one among them
C25_Witness ==
    /\ ev.kind = "frame" /\ ev.outcome = "processed" /\ ev.saves = 1
    /\ ev.raycast /\ ev.grew
    /\ max_id > 0 /\ max_id < Len(grid_feat)
    /\ Len(disk[1].grid_feat) = max_id
    /\ \E s \in 1..max_id :
          disk[1].grid_pos[s] = <<0, 0, 0>> /\ disk[1].weight[s] # RInt(0)

============================================================================
